---- MODULE Spec2Model ----
(***************************************************************************)
(* The two VAE training scripts of gqn-impl as one state machine:          *)
(*   variational_autoencoder.py        (script = "tf")                     *)
(*   variational_autoencoder_keras.py  (script = "keras")                  *)
(* A run is one execution of one script: the graph/model construction,     *)
(* the training loop, weight load/save (keras) and the latent sweep.       *)
(* Tensors are modelled by their shapes and by the provenance of their     *)
(* values (batch id, epsilon draw, parameter version); the loss is         *)
(* computed on batches whose per-element error is uniform.                 *)
(***************************************************************************)
EXTENDS Integers, Sequences, FiniteSets, TLC

\* ------------------------------------------------------------- bounds
\* range(1, num_steps+1): 30000 in the source, scaled down
num_steps == 2
\* range(epochs): 50 in the source, scaled down
epochs == 2
\* range(60000) in the source, scaled down
StepsPerEpoch == 2
\* grid of the TensorFlow sweep: n = 20 in the source, scaled down
n == 2
\* grid of plot_results: n = 30 in the source, scaled down
n_plot == 2
\* capacity of the batch queue of the data reader
QueueCap == 1
\* number of queue-runner threads
NumProducers == 2
\* batches of 1..MaxBatch examples besides the requested batch size
MaxBatch == 3
\* per-element reconstruction error levels 0..MaxErr
MaxErr == 1
\* per-latent-dimension KL levels 0..MaxKl
MaxKl == 1

\* ------------------------------------------------- program constants
image_dim == 64
image_channels == 3
conv_channels == 64
latent_dim == 2
batch_size == 64
image_size == 28
digit_size == 28
intermediate_dim == 784
data_gen_batch == 12

Scripts == {"tf", "keras"}

\* the step limit of the training loop of a script
StepLimit(s) == IF s = "tf" THEN num_steps ELSE epochs * StepsPerEpoch

\* ---------------------------------------------------------- rationals
RECURSIVE GCD(_, _)
GCD(a, b) == IF b = 0 THEN a ELSE GCD(b, a % b)

Rat(num, den) == LET g == GCD(num, den)
                 IN  IF g = 0 THEN [n |-> 0, d |-> 1] ELSE [n |-> num \div g, d |-> den \div g]
RAdd(a, b) == Rat(a.n * b.d + b.n * a.d, a.d * b.d)
\* k * a, dividing first so that the product stays small
RScale(k, a) == LET g == GCD(k, a.d) IN Rat((k \div g) * a.n, a.d \div g)
RDiv(a, k) == LET g == GCD(a.n, k)
              IN  IF g = 0 THEN [n |-> 0, d |-> 1] ELSE Rat(a.n \div g, a.d * (k \div g))
REq(a, b) == a.n * b.d = b.n * a.d

\* ------------------------------------------------------ tensor shapes
\* a shape is a sequence of dimensions; the first is the batch dimension
RECURSIVE Elems(_)
Elems(s) == IF s = <<>> THEN 1 ELSE Head(s) * Elems(Tail(s))

\* tf.layers.Conv2D / Conv2D with the default padding='valid', stride 1
Conv2DValid(s, k, ch) == <<s[1], s[2] - k + 1, s[3] - k + 1, ch>>
\* Conv2D / Conv2DTranspose with padding='same', stride 1
Conv2DSame(s, ch) == <<s[1], s[2], s[3], ch>>
FlattenShape(s) == <<s[1], Elems(Tail(s))>>
DenseShape(s, units) == <<s[1], units>>
\* reshape(x, (-1,) + dims): defined when the element count divides
CanReshape(s, dims) == Elems(s) % Elems(dims) = 0
ReshapeShape(s, dims) == <<Elems(s) \div Elems(dims)>> \o dims

\* the shape the encoder input of a script accepts, batch dimension free
InputDims(s) == IF s = "tf" THEN <<image_dim, image_dim, image_channels>>
                ELSE <<image_size, image_size, image_channels>>

\* encoder: three valid convolutions, Flatten, Dense(latent) heads
EncoderFeatures(x) ==
    FlattenShape(Conv2DValid(Conv2DValid(Conv2DValid(x, 2, conv_channels), 3, conv_channels), 3, conv_channels))
ZMeanShape(s, x) == DenseShape(EncoderFeatures(x), IF s = "tf" THEN 2 ELSE latent_dim)
ZLogVarShape(s, x) == DenseShape(EncoderFeatures(x), IF s = "tf" THEN 2 ELSE latent_dim)
\* eps = random_normal(shape(z_std)); z = z_mean + exp(z_std / 2) * eps
ZShape(s, x) == ZLogVarShape(s, x)

\* variant: the last layer with the default padding
FinalConvValid(sh, ch) == Conv2DValid(sh, 2, ch)
\* the decoder's last layer: Conv2D(image_channels, (2,2), padding='same')
FinalConv(sh, ch) == Conv2DSame(sh, ch)

\* decoder: two Dense layers, reshape, two transposed convolutions, Conv2D
DecoderShape(s, z) ==
    IF s = "tf"
    THEN LET d1 == DenseShape(z, image_dim * image_dim)
             d2 == DenseShape(d1, image_dim * image_dim * 3)
             r  == ReshapeShape(d2, <<image_dim, image_dim, 3>>)
             t1 == Conv2DSame(r, conv_channels)
             t2 == Conv2DSame(t1, conv_channels)
         IN  FinalConv(t2, image_channels)
    ELSE LET d1 == DenseShape(z, intermediate_dim)
             d2 == DenseShape(d1, 64 * 28 * 28)
             r  == ReshapeShape(d2, <<28, 28, 64>>)
             t1 == Conv2DSame(r, 64)
             t2 == Conv2DSame(t1, 64)
         IN  FinalConv(t2, image_channels)


\* ---------------------------------------------------- dataflow graphs
\* the nodes each node of the graph is computed from
Deps(s, node) ==
    IF s = "tf"
    THEN CASE node = "target_image" -> {}
           [] node = "encoder"      -> {"target_image"}
           [] node = "z_mean"       -> {"encoder"}
           [] node = "z_std"        -> {"encoder"}
           [] node = "eps"          -> {"z_std"}
           [] node = "z"            -> {"z_mean", "z_std", "eps"}
           [] node = "latent_input" -> {"z"}
           [] node = "decoder"      -> {"latent_input"}
           [] node = "x"            -> {"decoder"}
           [] node = "output"       -> {"x"}
           [] node = "loss_op"      -> {"output", "target_image", "z_std", "z_mean"}
           [] node = "train_op"     -> {"loss_op"}
           [] OTHER                 -> {}
    ELSE CASE node = "inputs"       -> {}
           [] node = "encoder"      -> {"inputs"}
           [] node = "z_mean"       -> {"encoder"}
           [] node = "z_log_var"    -> {"encoder"}
           [] node = "epsilon"      -> {"z_mean"}
           [] node = "z"            -> {"z_mean", "z_log_var", "epsilon"}
           [] node = "outputs"      -> {"z"}
           [] node = "latent_inputs" -> {}
           [] node = "decoder"      -> {"latent_inputs"}
           [] node = "vae_loss"     -> {"inputs", "outputs", "z_log_var", "z_mean"}
           [] node = "train_on_batch" -> {"vae_loss"}
           [] OTHER                 -> {}

\* placeholders without a default: evaluating one that is not fed is an error
Placeholders(s) == IF s = "tf" THEN {"target_image", "noise_input"}
                   ELSE {"inputs", "latent_inputs"}
\* the nodes that apply layers, i.e. read the model parameters
ParamReaders(s) == IF s = "tf" THEN {"encoder", "z_mean", "z_std", "decoder", "x", "output"}
                   ELSE {"encoder", "z_mean", "z_log_var", "outputs", "decoder"}
\* the nodes of the encoder and of the sampler
EncoderNodes(s) == IF s = "tf" THEN {"target_image", "encoder", "z_mean", "z_std", "eps", "z"}
                   ELSE {"inputs", "encoder", "z_mean", "z_log_var", "epsilon", "z"}
NoiseNode(s) == IF s = "tf" THEN "eps" ELSE "epsilon"
InputNode(s) == IF s = "tf" THEN "target_image" ELSE "inputs"

\* the nodes one run evaluates: the fetches and what they are computed
\* from, a fed node cutting the graph behind it
RECURSIVE Evaluated(_, _, _)
Evaluated(s, fetches, feeds) ==
    LET more == fetches \cup UNION {Deps(s, x) : x \in fetches \ feeds}
    IN  IF more = fetches THEN fetches ELSE Evaluated(s, more, feeds)

\* what the value of a node is computed from in a run with these feeds:
\* the fed batch, the noise drawn, the model parameters
Uses(s, node, feeds) ==
    LET used == Evaluated(s, {node}, feeds)
    IN  [batch  |-> InputNode(s) \in used,
         noise  |-> NoiseNode(s) \in used,
         params |-> used \cap ParamReaders(s) # {}]

\* where a value with uses `u` comes from in a run that is fed batch `b`,
\* draws noise number `e` and reads parameter version `v`
Provenance(u, b, e, v) ==
    [batch  |-> IF u.batch THEN b ELSE 0,
     noise  |-> IF u.noise THEN e ELSE 0,
     params |-> IF u.params THEN v ELSE -1]

\* ------------------------------------------------------------ the loss
\* numpy/TensorFlow broadcasting of a tensor with a vector
Broadcastable(sh, vec) == sh[Len(sh)] = vec[1] \/ sh[Len(sh)] = 1 \/ vec[1] = 1

\* kl = -0.5 * sum over the latent axis; k is the value of
\* -(1 + log_var - mean^2 - exp(log_var)) of every latent dimension
KlPerExample(k) == Rat(latent_dim * k, 2)

\* vae_loss of the TensorFlow script on a batch of shape xs whose
\* per-element cross-entropy is e
LossTF(xs, e, k) ==
    LET \* tf.contrib.losses.sigmoid_cross_entropy: the mean over all elements
        xent == Rat(Elems(xs) * e, Elems(xs))
        encode_decode_loss == RScale(image_dim * image_dim * image_channels, xent)
        \* scalar + [B] broadcasts to [B]; reduce_mean over the batch
        total == RScale(xs[1], RAdd(encode_decode_loss, KlPerExample(k)))
    IN  RDiv(total, xs[1])

\* shape of reconstruction_loss in the Keras script
ReconShape(mse, xs) == IF mse THEN <<xs[1], xs[2], xs[3]>> ELSE xs

\* vae_loss of the Keras script
LossKeras(mse, xs, e, k) ==
    LET \* mse: K.mean(square, axis=-1); binary_crossentropy: elementwise
        el == IF mse THEN Rat(xs[4] * e, xs[4]) ELSE Rat(e, 1)
        scaled == RScale(image_size * image_size, el)
        cnt == Elems(ReconShape(mse, xs))
        \* K.mean over every element of reconstruction_loss + kl_loss
        total == RScale(cnt, RAdd(scaled, KlPerExample(k)))
    IN  RDiv(total, cnt)

\* the final activation of the decoder and the reconstruction loss in use
FinalActivation(s) == IF s = "tf" THEN "sigmoid" ELSE "linear"
ReconstructionLoss(s, mse) == IF s = "tf" THEN "cross_entropy"
                              ELSE IF mse THEN "mse" ELSE "cross_entropy"


\* ------------------------------------------------------------- state
VARIABLES
    script,      \* which script runs
    args,        \* the parsed command line: [weights, mse]
    dataset,     \* the shape of the batches the data source of the run delivers
    pc,          \* position of the main thread
    failedAt,    \* the position at which the run aborted, "" while it has not
    step,        \* completed iterations of the training loop
    queue,       \* the batch queue of the data reader (TensorFlow script)
    pending,     \* the batch each queue-runner thread has read and not yet enqueued
    produced,    \* number of batches the data source has produced
    cur,         \* batch_x of the current iteration
    drawn,       \* the batches the training loop has drawn, in order
    trained,     \* ids of the batches fed to the optimizer, in order
    updates,     \* number of optimizer updates applied
    params,      \* the model parameters: where they come from and their version
    noiseDraws,  \* number of epsilon tensors drawn
    lastRun,     \* what the last execution of the model graph evaluated
    canvas,      \* the tiles written into the composite image
    gi, gj,      \* grid point of the sweep
    saved,       \* number of save_weights calls
    loaded       \* number of load_weights calls

vars == <<script, args, dataset, pc, failedAt, step, queue, pending, produced, cur, drawn,
          trained, updates, params, noiseDraws, lastRun, canvas, gi, gj, saved, loaded>>

Producers == 1..NumProducers
MaxBatches == num_steps + 1

NoBatch == [id |-> 0, shape |-> <<>>]
NoCur == [id |-> 0, x |-> <<>>]
NoSrc == [batch |-> 0, noise |-> 0, params |-> -1]
NoRun == [kind |-> "none", nodes |-> {}, kl |-> NoSrc, klv |-> NoSrc, recon |-> NoSrc, grad |-> NoSrc,
          xs |-> <<>>, e |-> 0, k |-> 0, loss |-> [n |-> 0, d |-> 1],
          mean |-> <<>>, logvar |-> <<>>, z |-> <<>>, out |-> <<>>]

\* the image shapes a data source may deliver, and the batches of them
FrameShapes == {<<64, 64, 3>>, <<32, 32, 3>>, <<28, 28, 3>>}
Requested(s) == IF s = "tf" THEN batch_size ELSE data_gen_batch
BatchShapes(s) == {<<b>> \o f : b \in (1..MaxBatch) \cup {Requested(s)}, f \in FrameShapes}

Init ==
    /\ script \in Scripts
    /\ args \in [weights : BOOLEAN, mse : BOOLEAN]
    /\ script = "tf" => args = [weights |-> FALSE, mse |-> FALSE]
    /\ dataset \in BatchShapes(script)
    /\ pc = IF script = "tf" THEN "read" ELSE "main"
    /\ failedAt = ""
    /\ step = 0
    /\ queue = <<>>
    /\ pending = [p \in Producers |-> NoBatch]
    /\ produced = 0
    /\ cur = NoCur
    /\ drawn = <<>>
    /\ trained = <<>>
    /\ updates = 0
    /\ params = [from |-> "init", version |-> 0]
    /\ noiseDraws = 0
    /\ lastRun = NoRun
    /\ canvas = {}
    /\ gi = 0
    /\ gj = 0
    /\ saved = 0
    /\ loaded = 0

\* ------------------------------------------------- the data reader
\* a queue-runner thread reads the next batch from the data set
Produce(p) ==
    /\ script = "tf"
    /\ pending[p] = NoBatch
    /\ produced < MaxBatches
    /\ pending' = [pending EXCEPT ![p] = [id |-> produced + 1, shape |-> dataset]]
    /\ produced' = produced + 1
    /\ UNCHANGED <<script, args, dataset, pc, failedAt, step, queue, cur, drawn, trained, updates,
                   params, noiseDraws, lastRun, canvas, gi, gj, saved, loaded>>

\* and enqueues it, blocking while the queue is full
Enqueue(p) ==
    /\ script = "tf"
    /\ pending[p] # NoBatch
    /\ Len(queue) < QueueCap
    /\ queue' = Append(queue, pending[p])
    /\ pending' = [pending EXCEPT ![p] = NoBatch]
    /\ UNCHANGED <<script, args, dataset, pc, failedAt, step, produced, cur, drawn, trained, updates,
                   params, noiseDraws, lastRun, canvas, gi, gj, saved, loaded>>

\* ------------------------------------------- one graph execution
TrainFetches(s) == IF s = "tf" THEN {"train_op", "loss_op"} ELSE {"train_on_batch"}
TrainFeeds(s) == {InputNode(s)}

\* variant: an execution using the noise tensor of the one before it
NoiseIdFixed == IF noiseDraws = 0 THEN noiseDraws + 1 ELSE noiseDraws
\* eps / epsilon is a random op of the graph: every execution that
\* evaluates it draws a new tensor
NoiseId == noiseDraws + 1

\* the nodes the loss is built from
LossNode(s) == IF s = "tf" THEN "loss_op" ELSE "vae_loss"
OutNode(s) == IF s = "tf" THEN "output" ELSE "outputs"
LogVarNode(s) == IF s = "tf" THEN "z_std" ELSE "z_log_var"

\* the training execution of each script: the nodes it evaluates and what
\* the terms of the loss are computed from
TrainGraph ==
    [s \in Scripts |->
        [nodes |-> Evaluated(s, TrainFetches(s), TrainFeeds(s)),
         kl    |-> Uses(s, "z_mean", TrainFeeds(s)),
         klv   |-> Uses(s, LogVarNode(s), TrainFeeds(s)),
         recon |-> Uses(s, OutNode(s), TrainFeeds(s)),
         grad  |-> Uses(s, LossNode(s), TrainFeeds(s))]]

\* the record of a training execution fed batch b of shape xs
TrainRun(s, b, xs, e, k) ==
    LET v == params.version
        g == TrainGraph[s]
    IN  [kind  |-> "train",
         nodes |-> g.nodes,
         kl    |-> Provenance(g.kl, b, NoiseId, v),
         klv   |-> Provenance(g.klv, b, NoiseId, v),
         recon |-> Provenance(g.recon, b, NoiseId, v),
         grad  |-> Provenance(g.grad, b, NoiseId, v),
         xs |-> xs, e |-> e, k |-> k,
         loss |-> IF s = "tf" THEN LossTF(xs, e, k) ELSE LossKeras(args.mse, xs, e, k),
         mean |-> ZMeanShape(s, xs), logvar |-> ZLogVarShape(s, xs), z |-> ZShape(s, xs),
         out |-> DecoderShape(s, ZShape(s, xs))]


\* variant: a loop of one iteration too many
LoopEndsLate(s, done) == done = StepLimit(s) + 1
\* for i in range(1, num_steps+1) / for i in range(epochs): for j in range(60000):
\* the loop is left when `done` iterations have completed
LoopEnds(s, done) == done = StepLimit(s)

Abort(at) ==
    /\ pc' = "aborted"
    /\ failedAt' = at

\* ------------------------------------------- the TensorFlow script
\* variant: a read that leaves the batch in the queue
ReadBatchKeep ==
    /\ script = "tf"
    /\ pc = "read"
    /\ queue # <<>>
    /\ LET b == Head(queue)
       IN  /\ queue' = queue
           /\ drawn' = Append(drawn, b)
           /\ IF CanReshape(b.shape, InputDims("tf"))
              THEN /\ cur' = [id |-> b.id, x |-> ReshapeShape(b.shape, InputDims("tf"))]
                   /\ pc' = "train"
                   /\ failedAt' = failedAt
              ELSE /\ cur' = cur
                   /\ Abort("read")
    /\ UNCHANGED <<script, args, dataset, step, pending, produced, trained, updates, params,
                   noiseDraws, lastRun, canvas, gi, gj, saved, loaded>>

\* data = sess.run(data_reader.read(batch_size)); batch_x = np.reshape(...):
\* blocks until the queue holds a batch and dequeues it
ReadBatch ==
    /\ script = "tf"
    /\ pc = "read"
    /\ queue # <<>>
    /\ LET b == Head(queue)
       IN  /\ queue' = Tail(queue)
           /\ drawn' = Append(drawn, b)
           /\ IF CanReshape(b.shape, InputDims("tf"))
              THEN /\ cur' = [id |-> b.id, x |-> ReshapeShape(b.shape, InputDims("tf"))]
                   /\ pc' = "train"
                   /\ failedAt' = failedAt
              ELSE /\ cur' = cur
                   /\ Abort("read")
    /\ UNCHANGED <<script, args, dataset, step, pending, produced, trained, updates, params,
                   noiseDraws, lastRun, canvas, gi, gj, saved, loaded>>

\* _, l = sess.run([train_op, loss_op], feed_dict={target_image: batch_x})
TrainStep ==
    /\ script = "tf"
    /\ pc = "train"
    /\ \E e \in 0..MaxErr, k \in 0..MaxKl :
          LET run == TrainRun("tf", cur.id, cur.x, e, k)
              unfed == (run.nodes \cap Placeholders("tf")) \ TrainFeeds("tf")
          IN  IF unfed # {} \/ Tail(cur.x) # InputDims("tf")
              THEN /\ Abort("train")
                   /\ UNCHANGED <<step, trained, updates, params, noiseDraws, lastRun>>
              ELSE /\ lastRun' = run
                   /\ noiseDraws' = noiseDraws + 1
                   /\ updates' = updates + 1
                   /\ params' = [params EXCEPT !.version = @ + 1]
                   /\ trained' = Append(trained, cur.id)
                   /\ step' = step + 1
                   /\ pc' = IF LoopEnds("tf", step + 1) THEN "sweep" ELSE "read"
                   /\ failedAt' = failedAt
    /\ UNCHANGED <<script, args, dataset, queue, pending, produced, cur, drawn, canvas, gi, gj,
                   saved, loaded>>

\* ------------------------------------------------ the Keras script
\* variant: the training loops outside the else branch
KerasMainTrainsAfterLoad ==
    /\ script = "keras"
    /\ pc = "main"
    /\ IF args.weights
       THEN /\ loaded' = loaded + 1
            /\ params' = [from |-> "file", version |-> 0]
       ELSE UNCHANGED <<loaded, params>>
    /\ pc' = "kstep"
    /\ UNCHANGED <<script, args, dataset, failedAt, step, queue, pending, produced, cur, drawn,
                   trained, updates, noiseDraws, lastRun, canvas, gi, gj, saved>>

\* if args.weights: vae.load_weights(...) else: the training loops
KerasMain ==
    /\ script = "keras"
    /\ pc = "main"
    /\ IF args.weights
       THEN /\ loaded' = loaded + 1
            /\ params' = [from |-> "file", version |-> 0]
            /\ pc' = "plot"
       ELSE /\ pc' = "kstep"
            /\ UNCHANGED <<loaded, params>>
    /\ UNCHANGED <<script, args, dataset, failedAt, step, queue, pending, produced, cur, drawn,
                   trained, updates, noiseDraws, lastRun, canvas, gi, gj, saved>>

\* x, y = next(train_data_gen); vae.train_on_batch(x, y)
KerasTrainStep ==
    /\ script = "keras"
    /\ pc = "kstep"
    /\ \E e \in 0..MaxErr, k \in 0..MaxKl :
          LET xs == dataset
              b == [id |-> produced + 1, shape |-> xs]
              run == TrainRun("keras", b.id, xs, e, k)
          IN  /\ produced' = produced + 1
              /\ drawn' = Append(drawn, b)
              /\ IF \/ Tail(xs) # InputDims("keras")
                    \/ ~Broadcastable(ReconShape(args.mse, xs), <<xs[1]>>)
                 THEN /\ Abort("kstep")
                      /\ UNCHANGED <<step, cur, trained, updates, params, noiseDraws, lastRun>>
                 ELSE /\ cur' = [id |-> b.id, x |-> xs]
                      /\ lastRun' = run
                      /\ noiseDraws' = noiseDraws + 1
                      /\ updates' = updates + 1
                      /\ params' = [params EXCEPT !.version = @ + 1]
                      /\ trained' = Append(trained, b.id)
                      /\ step' = step + 1
                      /\ pc' = IF LoopEnds("keras", step + 1) THEN "save" ELSE "kstep"
                      /\ failedAt' = failedAt
    /\ UNCHANGED <<script, args, dataset, queue, pending, canvas, gi, gj, saved, loaded>>

\* vae.save_weights('vae_mlp_mnist.h5')
KerasSave ==
    /\ script = "keras"
    /\ pc = "save"
    /\ saved' = saved + 1
    /\ pc' = "plot"
    /\ UNCHANGED <<script, args, dataset, failedAt, step, queue, pending, produced, cur, drawn,
                   trained, updates, params, noiseDraws, lastRun, canvas, gi, gj, loaded>>

\* x_test as reshaped at module level: (-1, image_size, image_size, 1)
XTestDims == <<image_size, image_size, 1>>

\* plot_results up to the sweep: encoder.predict(x_test, batch_size)
PlotResults ==
    /\ script = "keras"
    /\ pc = "plot"
    /\ IF XTestDims # InputDims("keras")
       THEN Abort("plot")
       ELSE /\ pc' = "sweep"
            /\ failedAt' = failedAt
    /\ UNCHANGED <<script, args, dataset, step, queue, pending, produced, cur, drawn, trained,
                   updates, params, noiseDraws, lastRun, canvas, gi, gj, saved, loaded>>


\* ---------------------------------------------------------- the sweep
GridN(s) == IF s = "tf" THEN n ELSE n_plot
TileDim(s) == IF s = "tf" THEN image_dim ELSE digit_size
\* the shape of one tile: reshape(image_dim, image_dim, image_channels)
\* and reshape(digit_size, digit_size)
TileShape(s) == IF s = "tf" THEN <<image_dim, image_dim, image_channels>>
                ELSE <<digit_size, digit_size>>
\* z_mu = np.array([[xi, yi]] * batch_size); z_sample = np.array([[xi, yi]])
SweepLatentShape(s) == IF s = "tf" THEN <<batch_size, 2>> ELSE <<1, 2>>

\* variant: the sweep feeding the unused placeholder noise_input
SweepFeedsNoise(s) == IF s = "tf" THEN {"noise_input"} ELSE {"latent_inputs"}
\* feed_dict={latent_input: z_mu}; decoder.predict(z_sample)
SweepFeeds(s) == IF s = "tf" THEN {"latent_input"} ELSE {"latent_inputs"}
SweepFetches(s) == IF s = "tf" THEN {"output"} ELSE {"decoder"}

Min(a, b) == IF a < b THEN a ELSE b
\* a[lo:hi] on an axis of length len: numpy cuts the slice at the end
Slice(lo, hi, len) == [lo |-> Min(lo, len), hi |-> Min(hi, len)]

\* canvas[(n - i - 1) * image_dim:(n - i) * image_dim, ...] and
\* figure[i * digit_size:(i + 1) * digit_size, ...]
TileRows(s, i) ==
    IF s = "tf" THEN Slice((GridN(s) - i - 1) * TileDim(s), (GridN(s) - i) * TileDim(s), TileDim(s) * GridN(s))
    ELSE Slice(i * TileDim(s), (i + 1) * TileDim(s), TileDim(s) * GridN(s))
\* [..., j * image_dim:(j + 1) * image_dim] and [..., j * digit_size:(j + 1) * digit_size]
TileCols(s, j) == Slice(j * TileDim(s), (j + 1) * TileDim(s), TileDim(s) * GridN(s))

\* the execution of a sweep step of each script
SweepGraph ==
    [s \in Scripts |->
        [nodes |-> Evaluated(s, SweepFetches(s), SweepFeeds(s)),
         out   |-> Uses(s, CHOOSE f \in SweepFetches(s) : TRUE, SweepFeeds(s))]]

\* one grid point: run the decoder on the grid coordinates and write
\* the first image of its output into the composite
SweepStep ==
    /\ pc = "sweep"
    /\ LET nodes == SweepGraph[script].nodes
           unfed == (nodes \cap Placeholders(script)) \ SweepFeeds(script)
           out == DecoderShape(script, SweepLatentShape(script))
           rows == TileRows(script, gi)
           cols == TileCols(script, gj)
           last == gi = GridN(script) - 1 /\ gj = GridN(script) - 1
       IN  /\ lastRun' = [NoRun EXCEPT !.kind = "sweep", !.nodes = nodes,
                                        !.z = SweepLatentShape(script), !.out = out,
                                        !.recon = Provenance(SweepGraph[script].out, 0, NoiseId, params.version)]
           /\ IF \/ unfed # {}
                 \/ Elems(Tail(out)) # Elems(TileShape(script))
                 \/ rows.hi - rows.lo # TileShape(script)[1]
                 \/ cols.hi - cols.lo # TileShape(script)[2]
              THEN /\ Abort("sweep")
                   /\ UNCHANGED <<canvas, gi, gj>>
              ELSE /\ canvas' = canvas \cup {[i |-> gi, j |-> gj, rows |-> rows, cols |-> cols]}
                   /\ gj' = IF gj = GridN(script) - 1 THEN 0 ELSE gj + 1
                   /\ gi' = IF gj = GridN(script) - 1 THEN gi + 1 ELSE gi
                   /\ pc' = IF last THEN "done" ELSE "sweep"
                   /\ failedAt' = failedAt
    /\ UNCHANGED <<script, args, dataset, step, queue, pending, produced, cur, drawn, trained,
                   updates, params, noiseDraws, saved, loaded>>

Next ==
    \/ \E p \in Producers : Produce(p)
    \/ \E p \in Producers : Enqueue(p)
    \/ ReadBatch
    \/ TrainStep
    \/ KerasMain
    \/ KerasTrainStep
    \/ KerasSave
    \/ PlotResults
    \/ SweepStep

Spec == Init /\ [][Next]_vars


\* ------------------------------------------------------------ claims
\* positions of the main thread inside the training loop
InTraining == pc \in {"read", "train", "kstep"}
\* the run has aborted inside the training loop
AbortedInTraining == failedAt \in {"read", "train", "kstep"}
\* the run has left the training loop without aborting in it
PastTraining == ~InTraining /\ ~AbortedInTraining /\ pc # "main"
\* the run is in, or has stopped in, its generation stage
InGeneration == pc \in {"plot", "sweep", "done"} \/ failedAt \in {"plot", "sweep"}

\* C1: in both training loops every completed step has drawn one batch and
\* applied one optimizer update to it, the optimizer being the only writer
\* of the parameters: updates = batches trained on = completed steps <= the
\* step limit, and the loop is left for the next stage exactly when the
\* completed steps equal the limit.
C1_StepAccounting ==
    /\ updates = step
    /\ Len(trained) = step
    /\ params.version = updates
    /\ step <= StepLimit(script)
    /\ Len(drawn) \in {step, step + 1}
    /\ Len(drawn) = step + 1 <=> (pc = "train" \/ AbortedInTraining)
    /\ \A m \in 1..step : trained[m] = drawn[m].id
    /\ InTraining => step < StepLimit(script)
    /\ (PastTraining /\ ~args.weights) => step = StepLimit(script)
    /\ step = StepLimit(script) => ~InTraining

C1_Witness ==
    /\ script = "tf"
    /\ pc = "sweep"
    /\ step = num_steps
    /\ updates = num_steps

C3_SameForwardPass ==
    lastRun.kind = "train" =>
        /\ step >= 1
        /\ lastRun.kl.batch = drawn[step].id
        /\ lastRun.klv.batch = drawn[step].id
        /\ lastRun.recon.batch = drawn[step].id
        /\ lastRun.grad.batch = drawn[step].id
        /\ lastRun.recon.noise = step
        /\ lastRun.grad.noise = step
        /\ lastRun.kl.params = step - 1
        /\ lastRun.klv.params = step - 1
        /\ lastRun.recon.params = step - 1
        /\ lastRun.grad.params = step - 1
        /\ TrainFetches(script) \subseteq lastRun.nodes
        /\ (IF script = "tf" THEN "loss_op" ELSE "vae_loss") \in lastRun.nodes

C3_Witness ==
    /\ lastRun.kind = "train"
    /\ step = 2
    /\ lastRun.recon.noise = 2
    /\ lastRun.kl.batch = drawn[2].id


\* C4: every batch the data source delivers with an image shape other than
\* the encoder's input shape aborts the run in the step that drew it: it is
\* the last batch drawn and no optimizer update is applied for it.
C4_MismatchAborts ==
    \A m \in 1..Len(drawn) :
        Tail(drawn[m].shape) # InputDims(script) =>
            /\ pc = "aborted"
            /\ m = Len(drawn)
            /\ updates = m - 1
            /\ \A j \in 1..Len(trained) : trained[j] # drawn[m].id

\* C5: in every configuration the final activation of the decoder matches
\* the reconstruction loss: sigmoid with cross-entropy, linear with
\* mean-squared error.
C5_ActivationMatchesLoss ==
    /\ FinalActivation(script) = "sigmoid" <=> ReconstructionLoss(script, args.mse) = "cross_entropy"
    /\ FinalActivation(script) = "linear" <=> ReconstructionLoss(script, args.mse) = "mse"

\* the loss of a batch of shape xs reduced as the specification states it:
\* the batch mean of the per-example error summed over pixels and channels
\* plus the batch mean of the per-example KL term summed over the latent
\* dimensions
StatedLoss(xs, e, k) ==
    LET perExample == RAdd(Rat(Elems(Tail(xs)) * e, 1), KlPerExample(k))
    IN  RDiv(RScale(xs[1], perExample), xs[1])

\* C6: the loss of every training step equals the stated reduction (sum
\* over the feature dimensions, mean over the batch), in both scripts and
\* for both reconstruction losses.
C6_LossReduction ==
    lastRun.kind = "train" => REq(lastRun.loss, StatedLoss(lastRun.xs, lastRun.e, lastRun.k))

\* the part of C6 that concerns the TensorFlow script alone
LossReductionTF ==
    (script = "tf" /\ lastRun.kind = "train") =>
        REq(lastRun.loss, StatedLoss(lastRun.xs, lastRun.e, lastRun.k))

\* what the Keras script computes instead: the reconstruction error is
\* averaged, not summed, over the channels
LossReductionKeras ==
    (script = "keras" /\ lastRun.kind = "train") =>
        REq(lastRun.loss, RAdd(Rat(image_size * image_size * lastRun.e, 1), KlPerExample(lastRun.k)))

\* C7: for every batch fed to the model in a training step, mean, log_var
\* and z have shape [B, latent_dim] and the reconstruction has the shape of
\* the batch; the decoder output of a sweep step has the model's image
\* shape for every latent vector fed.
C7_ShapesRoundTrip ==
    /\ lastRun.kind = "train" =>
          /\ lastRun.xs = cur.x
          /\ lastRun.xs[1] >= 1
          /\ Tail(lastRun.xs) = InputDims(script)
          /\ lastRun.mean = <<lastRun.xs[1], latent_dim>>
          /\ lastRun.logvar = <<lastRun.xs[1], latent_dim>>
          /\ lastRun.z = <<lastRun.xs[1], latent_dim>>
          /\ lastRun.out = lastRun.xs
    /\ lastRun.kind = "sweep" =>
          lastRun.out = <<lastRun.z[1]>> \o InputDims(script)

C7_Witness ==
    /\ lastRun.kind = "train"
    /\ lastRun.xs[1] = 3
    /\ lastRun.out = <<3, 64, 64, 3>>
    /\ lastRun.z = <<3, 2>>

\* C8: the sweep of the TensorFlow script evaluates the decoder only: no
\* encoder or sampler node and no training node is evaluated, its output
\* depends on no batch and no epsilon draw, and from the first grid point
\* to the last no update is applied, the parameters keep the version the
\* training loop left and the loop draws no batch.
C8_SweepDecoderOnly ==
    script = "tf" =>
        /\ lastRun.kind = "sweep" =>
              /\ lastRun.nodes = {"output", "x", "decoder", "latent_input"}
              /\ lastRun.nodes \cap EncoderNodes("tf") = {}
              /\ lastRun.nodes \cap {"train_op", "loss_op"} = {}
              /\ lastRun.recon = [batch |-> 0, noise |-> 0, params |-> num_steps]
        /\ (pc \in {"sweep", "done"} \/ failedAt = "sweep") =>
              /\ updates = num_steps
              /\ params = [from |-> "init", version |-> num_steps]
              /\ Len(drawn) = num_steps
              /\ noiseDraws = num_steps
              /\ failedAt = ""

C8_Witness ==
    /\ script = "tf"
    /\ pc = "done"
    /\ lastRun.kind = "sweep"
    /\ Cardinality(canvas) = n * n

\* the tiles of the composite
Inside(s, t) ==
    /\ 0 <= t.rows.lo /\ t.rows.lo < t.rows.hi /\ t.rows.hi <= GridN(s) * TileDim(s)
    /\ 0 <= t.cols.lo /\ t.cols.lo < t.cols.hi /\ t.cols.hi <= GridN(s) * TileDim(s)
Disjoint(t, u) ==
    \/ t.rows.hi <= u.rows.lo \/ u.rows.hi <= t.rows.lo
    \/ t.cols.hi <= u.cols.lo \/ u.cols.hi <= t.cols.lo
RECURSIVE Area(_)
Area(S) == IF S = {} THEN 0
           ELSE LET t == CHOOSE x \in S : TRUE
                IN  (t.rows.hi - t.rows.lo) * (t.cols.hi - t.cols.lo) + Area(S \ {t})
\* no two tiles overlap and every tile lies inside the composite
TilesApart(s) ==
    /\ \A t \in canvas : Inside(s, t)
    /\ \A t, u \in canvas : t # u => Disjoint(t, u)
\* every pixel of the composite has been written exactly once
CanvasComplete(s) ==
    /\ TilesApart(s)
    /\ \A i \in 0..GridN(s) - 1, j \in 0..GridN(s) - 1 :
          Cardinality({t \in canvas : t.i = i /\ t.j = j}) = 1
    /\ Area(canvas) = (GridN(s) * TileDim(s)) * (GridN(s) * TileDim(s))

\* C9: in both scripts the sweep writes the decoder output of every grid
\* point into its own tile of the composite: tiles never overlap or leave
\* the composite, and a run whose generation stage has stopped has written
\* every pixel of the composite exactly once.
C9_SweepFillsComposite ==
    /\ TilesApart(script)
    /\ (InGeneration /\ pc \in {"done", "aborted"}) => CanvasComplete(script)

\* the part of C9 that concerns the TensorFlow script alone
SweepFillsCompositeTF ==
    script = "tf" =>
        /\ TilesApart("tf")
        /\ Cardinality(canvas) = gi * n + gj
        /\ failedAt # "sweep"
        /\ pc = "done" => CanvasComplete("tf")

\* C10: in the Keras script loading and training exclude each other: with
\* a weights path the weights are loaded once, no step runs and nothing is
\* saved; without one nothing is loaded, the weights are saved once and
\* only after all epochs * StepsPerEpoch steps; the plot stage starts only
\* after the load or the save; a run aborted in training saves nothing.
C10_LoadOrTrainThenPlot ==
    script = "keras" =>
        /\ loaded <= 1 /\ saved <= 1
        /\ args.weights => (step = 0 /\ updates = 0 /\ saved = 0 /\ drawn = <<>>)
        /\ ~args.weights => (loaded = 0 /\ params.from = "init")
        /\ saved = 1 => (step = StepLimit("keras") /\ updates = StepLimit("keras") /\ ~InTraining)
        /\ (InTraining \/ pc \in {"main", "save"}) => (saved = 0 /\ loaded = 0)
        /\ InGeneration => (IF args.weights THEN loaded = 1 /\ params.from = "file" ELSE saved = 1)
        /\ AbortedInTraining => saved = 0

C10_Witness ==
    /\ script = "keras"
    /\ ~args.weights
    /\ saved = 1
    /\ step = epochs * StepsPerEpoch
    /\ failedAt = "plot"

====
